---- MODULE Spec2Model ----
(***************************************************************************)
(* A model of the progressive-alignment planning code of cactus:           *)
(*   - MultiCactusTree (progressive/multiCactusTree.py): the partitioning  *)
(*     of the species tree into subtrees, self nodes and outgroups;        *)
(*   - the jobTree targets of progressive/bin/cactus_progressive.py that   *)
(*     walk a schedule (ProgressiveDown / ProgressiveNext / ProgressiveUp).*)
(*                                                                         *)
(* The tree object is the record mcTree.  Its fields carry the names the   *)
(* source uses: rootId, subtreeRoots, nameToId, subtreeSize; the networkx  *)
(* digraph nxDg is the three fields nodes, edges, weight; name holds the   *)
(* 'name' attribute of every node.  A name is kept as the sequence of its  *)
(* dot-separated tokens ("human.chr1" is <<"human", "chr1">>), which is    *)
(* what str.split('.') makes of it; <<"">> is the empty name.              *)
(***************************************************************************)
EXTENDS Integers, Sequences, FiniteSets, TLC

VARIABLES mcTree, last, schedule, options, jobs, files, config

\* Python's None, for a node id or a weight
None == 0 - 1

\* the empty name "" as its token sequence
EmptyName == <<"">>

----------------------------------------------------------------------------
(* Bounds of the model *)

\* the trees a run starts from have at most this many nodes
MaxInitNodes == 6
\* subtreeSize ranges over 1..MaxSubtreeSize
MaxSubtreeSize == 3
\* where every call on the tree is tried, the trees start with at most
\* MaxSmallNodes nodes and grow to at most MaxNodes
MaxSmallNodes == 3
MaxNodes == MaxSmallNodes + 2
\* ... and a run makes at most MaxCalls calls
MaxCalls == 3
\* the schedules the driver walks have the events 1..MaxEvents
MaxEvents == 3
MaxNameLen == 3
\* a configuration has at most MaxPreps preprocessor elements, a sequence is
\* cut into at most MaxChunks chunks
MaxPreps == 2
MaxChunks == 4

----------------------------------------------------------------------------
(* Small helpers *)

Min(S) == CHOOSE x \in S : \A y \in S : x <= y
Max(S) == CHOOSE x \in S : \A y \in S : x >= y

RECURSIVE SortedSeq(_)
SortedSeq(S) ==
    IF S = {} THEN <<>> ELSE <<Min(S)>> \o SortedSeq(S \ {Min(S)})

Range(s) == {s[i] : i \in 1..Len(s)}

RECURSIVE Flatten(_)
Flatten(ss) ==
    IF ss = <<>> THEN <<>> ELSE Head(ss) \o Flatten(Tail(ss))

----------------------------------------------------------------------------
(* NXTree: the tree queries MultiCactusTree inherits *)

\* out-edges of a node, in ascending id order (the iteration order of a
\* Python 2 dict keyed by small integers)
getChildren(T, node) ==
    SortedSeq({e[2] : e \in {d \in T.edges : d[1] = node}})

getParent(T, node) ==
    IF \E e \in T.edges : e[2] = node
    THEN (CHOOSE e \in T.edges : e[2] = node)[1]
    ELSE None

isLeaf(T, node) == getChildren(T, node) = <<>>

getName(T, node) == T.name[node]

hasName(T, node) == T.name[node] # EmptyName

getWeight(T, parent, child) == T.weight[<<parent, child>>]

RECURSIVE bfsFrom(_, _)
bfsFrom(T, bfQueue) ==
    IF bfQueue = <<>> THEN <<>>
    ELSE <<Head(bfQueue)>>
         \o bfsFrom(T, Tail(bfQueue) \o getChildren(T, Head(bfQueue)))

breadthFirstTraversal(T) == bfsFrom(T, <<T.rootId>>)

----------------------------------------------------------------------------
(* MultiCactusTree: partitioning *)

getSubtreeLeavesAssert_off(T, node) == TRUE

\* the assertion that opens getSubtreeLeaves
getSubtreeLeavesAssert(T, node) ==
    Len(getChildren(T, node)) <= T.subtreeSize

levelFits_noCap(T, curLevel, nextLevel) ==
    Len(nextLevel) > Len(curLevel)

\* the condition of the while loop of getSubtreeLeaves
levelFits(T, curLevel, nextLevel) ==
    Len(nextLevel) <= T.subtreeSize /\ Len(nextLevel) > Len(curLevel)

RECURSIVE subtreeLeavesLoop(_, _, _)
subtreeLeavesLoop(T, curLevel, nextLevel) ==
    IF levelFits(T, curLevel, nextLevel)
    THEN subtreeLeavesLoop(T, nextLevel,
             Flatten([i \in 1..Len(nextLevel) |-> getChildren(T, nextLevel[i])]))
    ELSE curLevel

\* the frontier getSubtreeLeaves returns when its assertion holds
getSubtreeLeaves(T, node) ==
    subtreeLeavesLoop(T, <<>>, getChildren(T, node))

assertNotRoot_off(roots, root) == TRUE

\* assert root not in self.subtreeRoots
assertNotRoot(roots, root) == root \notin roots

recurseInto_all(T, subtreeLeaf) == TRUE

\* the test that decides which members of the frontier are recursed into
recurseInto(T, subtreeLeaf) == ~isLeaf(T, subtreeLeaf)

\* computeSubtreeRoots below the line that picks the root: the result is
\* the set subtreeRoots the call leaves behind, and the line of the assertion
\* that aborted it (0 when none did)
RECURSIVE computeSubtreeRootsRec(_, _, _)
RECURSIVE computeSubtreeRootsLoop(_, _, _)
computeSubtreeRootsRec(T, roots, root) ==
    IF ~assertNotRoot(roots, root)
    THEN [roots |-> roots, line |-> 53]
    ELSE IF ~getSubtreeLeavesAssert(T, root)
    THEN [roots |-> roots \cup {root}, line |-> 105]
    ELSE computeSubtreeRootsLoop(T, [roots |-> roots \cup {root}, line |-> 0],
                                 getSubtreeLeaves(T, root))

computeSubtreeRootsLoop(T, st, leaves) ==
    IF leaves = <<>> \/ st.line # 0 THEN st
    ELSE IF recurseInto(T, Head(leaves))
    THEN computeSubtreeRootsLoop(T,
             computeSubtreeRootsRec(T, st.roots, Head(leaves)), Tail(leaves))
    ELSE computeSubtreeRootsLoop(T, st, Tail(leaves))

\* the nodes traverseSubtree(root, node) yields, as a set
RECURSIVE traverseSubtree(_, _, _)
traverseSubtree_through(T, root, node) ==
    {node} \cup UNION {traverseSubtree(T, root, c) :
                          c \in Range(getChildren(T, node))}

traverseSubtree(T, root, node) ==
    IF node = root \/ node \notin T.subtreeRoots
    THEN {node} \cup UNION {traverseSubtree(T, root, c) :
                               c \in Range(getChildren(T, node))}
    ELSE {node}

\* blindly read in the roots from given list of names
assignSubtreeRootNames(T, rootNames) ==
    [T EXCEPT !.subtreeRoots =
        {node \in Range(breadthFirstTraversal(T)) :
            getName(T, node) \in rootNames}]

\* the names of the subtree-roots (the list, as a set)
getSubtreeRootNames(T) == {getName(T, x) : x \in T.subtreeRoots}

\* nxDg.subgraph(subtree).copy(): the nodes with their attributes, and the
\* edges with their weights, between them
subgraph(T, subtree) ==
    LET E == {e \in T.edges : e[1] \in subtree /\ e[2] \in subtree}
    IN  [nodes |-> subtree,
         edges |-> E,
         weight |-> [e \in E |-> T.weight[e]],
         name |-> [n \in subtree |-> T.name[n]]]

\* MultiCactusTree(cpy, subtreeSize): NXTree.__init__ finds the root of the
\* graph, the node without a parent
MultiCactusTree(cpy, subtreeSize) ==
    [nodes |-> cpy.nodes,
     edges |-> cpy.edges,
     weight |-> cpy.weight,
     name |-> cpy.name,
     rootId |-> CHOOSE n \in cpy.nodes : \A e \in cpy.edges : e[2] # n,
     subtreeRoots |-> {},
     nameToId |-> <<>>,
     subtreeSize |-> subtreeSize]

extractSubTree_wholeClade(T, name) ==
    assignSubtreeRootNames(
        MultiCactusTree(subgraph(T, traverseSubtree_through(T, T.nameToId[name],
                                                            T.nameToId[name])), 2),
        getSubtreeRootNames(T))

\* copy a subtree rooted at node with given name (the name is registered)
extractSubTree(T, name) ==
    LET root == T.nameToId[name]
        subtree == traverseSubtree(T, root, root)
    IN  assignSubtreeRootNames(MultiCactusTree(subgraph(T, subtree), 2),
                               getSubtreeRootNames(T))

\* getSubtreeRoot for a registered name: the root yields its node id; for
\* every other node the first statement after the test reads the local
\* variable parent before anything was assigned to it, which raises
\* UnboundLocalError, so that the walk up the ancestors is never entered
getSubtreeRoot(T, name) ==
    LET node == T.nameToId[name]
    IN  IF node = T.rootId THEN [value |-> node, line |-> 0]
        ELSE [value |-> None, line |-> 94]

----------------------------------------------------------------------------
(* MultiCactusTree: naming *)

needsName_anyInternal(T, node) == ~isLeaf(T, node)

\* the test that decides which nodes get a generated name
needsName(T, node) == ~isLeaf(T, node) /\ ~hasName(T, node)

\* one iteration of the loop of nameUnlabeledInternalNodes; st carries the
\* tree and the counter
nameStep(st, prefix, node) ==
    LET T == st.T
        rename == needsName(T, node)
        newName == IF rename THEN <<prefix \o ToString(st.count)>>
                   ELSE getName(T, node)
    IN  [T |-> [T EXCEPT !.name[node] = newName,
                         !.nameToId = (newName :> node) @@ T.nameToId],
         count |-> IF rename THEN st.count + 1 ELSE st.count]

RECURSIVE nameLoop(_, _, _)
nameLoop(st, prefix, traversal) ==
    IF traversal = <<>> THEN st
    ELSE nameLoop(nameStep(st, prefix, Head(traversal)), prefix,
                  Tail(traversal))

nameUnlabeledInternalNodes(T, prefix, startIdx) ==
    nameLoop([T |-> T, count |-> startIdx], prefix,
             breadthFirstTraversal(T)).T

----------------------------------------------------------------------------
(* MultiCactusTree: insertion of nodes *)

\* safe id to insert is current max + 1
getNextIndex(T) == Max(Range(breadthFirstTraversal(T))) + 1

\* nxDg.add_edge(u, v) for an edge that is not there yet: it has no weight
addEdge(T, u, v) ==
    [T EXCEPT !.edges = T.edges \cup {<<u, v>>},
              !.weight = (<<u, v>> :> None) @@ T.weight]

\* nxDg.remove_edge(u, v)
removeEdge(T, u, v) ==
    [T EXCEPT !.edges = T.edges \ {<<u, v>>},
              !.weight = [e \in T.edges \ {<<u, v>>} |-> T.weight[e]]]

setWeight(T, u, v, w) == [T EXCEPT !.weight[<<u, v>>] = w]

\* nxDg.add_node(n) followed by setName(n, name)
addNamedNode(T, n, newName) ==
    [T EXCEPT !.nodes = T.nodes \cup {n},
              !.name = (n :> newName) @@ T.name]

insertAboveRewire_keepEdge(T, node, newNode, parent) ==
    LET oldWeight == getWeight(T, parent, node)
        T1 == addEdge(T, parent, newNode)
    IN  IF oldWeight # None THEN setWeight(T1, parent, newNode, oldWeight)
        ELSE T1

\* the branch of insertAbove that rewires the parent's edge
insertAboveRewire(T, node, newNode, parent) ==
    LET oldWeight == getWeight(T, parent, node)
        T1 == addEdge(removeEdge(T, parent, node), parent, newNode)
    IN  IF oldWeight # None THEN setWeight(T1, parent, newNode, oldWeight)
        ELSE T1

insertAboveAttach_unweighted(T, node, newNode, newName, newWeight) ==
    LET T1 == addEdge(addNamedNode(T, newNode, newName), newNode, node)
    IN  IF newName # EmptyName
        THEN [T1 EXCEPT !.nameToId = (newName :> newNode) @@ T1.nameToId]
        ELSE T1

\* insertAbove from self.nxDg.add_node(newNode) to its end
insertAboveAttach(T, node, newNode, newName, newWeight) ==
    LET T1 == addEdge(addNamedNode(T, newNode, newName), newNode, node)
        T2 == IF newWeight # None THEN setWeight(T1, newNode, node, newWeight)
              ELSE T1
    IN  IF newName # EmptyName
        THEN [T2 EXCEPT !.nameToId = (newName :> newNode) @@ T2.nameToId]
        ELSE T2

\* the result is the tree and the line of the assertion that aborted the
\* call (0 when none did)
insertAbove(T, node, newNode, newName, newWeight) ==
    LET parent == getParent(T, node)
    IN  IF parent # None
        THEN [T |-> insertAboveAttach(insertAboveRewire(T, node, newNode, parent),
                                      node, newNode, newName, newWeight),
              line |-> 0]
        ELSE IF node # T.rootId
        THEN [T |-> T, line |-> 127]
        ELSE [T |-> insertAboveAttach([T EXCEPT !.rootId = newNode],
                                      node, newNode, newName, newWeight),
              line |-> 0]

\* the index of the first dot of a name spelled out character by character,
\* or one past its end
firstDot(name) ==
    Min({k \in 1..Len(name) : name[k] = "."} \cup {Len(name) + 1})

\* name.split('.'): the tokens between the dots, empty ones included
RECURSIVE split(_)
split(name) ==
    IF firstDot(name) > Len(name) THEN <<name>>
    ELSE <<SubSeq(name, 1, firstDot(name) - 1)>>
         \o split(SubSeq(name, firstDot(name) + 1, Len(name)))

\* the string the loop of makeSelfName builds: the first token, then a dot
\* and the token for every further one
RECURSIVE joinTokens(_)
joinTokens(tokens) ==
    IF Len(tokens) = 1 THEN tokens[1]
    ELSE joinTokens(SubSeq(tokens, 1, Len(tokens) - 1))
         \o <<".">> \o tokens[Len(tokens)]

makeSelfName_atEnd(tokens, suffix) ==
    SubSeq(tokens, 1, Len(tokens) - 1) \o <<tokens[Len(tokens)] \o suffix>>

\* make a self name, adding the suffix BEFORE the dot
makeSelfName(tokens, suffix) ==
    <<Head(tokens) \o suffix>> \o Tail(tokens)

\* Python's truth value of a node id: None and 0 are false
truthy(parent) == parent # None /\ parent # 0

needsSelfNode_leavesOnly(T, node) == isLeaf(T, node) /\ node # T.rootId

\* the test that decides which nodes of the traversal get a self node
needsSelfNode(T, node) ==
    (node \in T.subtreeRoots \/ isLeaf(T, node)) /\ node # T.rootId

\* the body of the loop of addSelfEdges; st carries the tree and nextIndex
selfEdgeStep(st, suffix, node) ==
    LET T == st.T
    IN  IF needsSelfNode(T, node)
        THEN LET newNode == st.nextIndex
                 parent == getParent(T, node)
                 weight == IF truthy(parent) THEN getWeight(T, parent, node)
                           ELSE None
                 newName == makeSelfName(getName(T, node), suffix)
                 res == insertAbove(T, node, newNode, newName, weight)
             IN  [T |-> [res.T EXCEPT !.subtreeRoots =
                                         res.T.subtreeRoots \cup {newNode}],
                  nextIndex |-> st.nextIndex + 1]
        ELSE st

RECURSIVE selfEdgeLoop(_, _, _)
selfEdgeLoop(st, suffix, traversal) ==
    IF traversal = <<>> THEN st
    ELSE selfEdgeLoop(selfEdgeStep(st, suffix, Head(traversal)), suffix,
                      Tail(traversal))

addSelfEdges(T, suffix) ==
    selfEdgeLoop([T |-> T, nextIndex |-> getNextIndex(T)], suffix,
                 breadthFirstTraversal(T)).T

\* distance / 2 on an integer distance (Python 2 division)
halve(distance) == distance \div 2

\* addOutgroup when the root is a leaf: a new root goes above it first
splitRoot(T, distance) ==
    IF isLeaf(T, T.rootId)
    THEN [T |-> insertAbove(T, T.rootId, getNextIndex(T), EmptyName,
                            halve(distance)).T,
          distance |-> halve(distance)]
    ELSE [T |-> T, distance |-> distance]

\* addOutgroup after the root was split
attachOutgroup(T, ogName, distance) ==
    LET newNode == getNextIndex(T)
        T1 == addNamedNode(addEdge(T, T.rootId, newNode), newNode, ogName)
    IN  setWeight([T1 EXCEPT !.nameToId = (ogName :> newNode) @@ T1.nameToId],
                  T.rootId, newNode, distance)

\* the result is the tree and the line of the assertion that aborted the
\* call (0 when none did)
addOutgroup(T, ogName, distance) ==
    IF ogName \in DOMAIN T.nameToId
    THEN [T |-> T, line |-> 168]
    ELSE LET s == splitRoot(T, distance)
         IN  [T |-> attachOutgroup(s.T, ogName, s.distance), line |-> 0]

----------------------------------------------------------------------------
(* The trees a run starts from *)

\* the tree a parser builds from a parent map over the ids 0..n-1: node 0
\* is the root, the edge into node c weighs c, a leaf i is called s<i>, and
\* the internal nodes are either all labelled (n<i>) or all unlabelled
TreeOf(n, par, labelled, k) ==
    LET E == {<<par[c], c>> : c \in 1..(n - 1)}
        internal == {par[c] : c \in 1..(n - 1)}
    IN  [nodes |-> 0..(n - 1),
         edges |-> E,
         weight |-> [e \in E |-> e[2]],
         name |-> [i \in 0..(n - 1) |->
                     IF i \notin internal THEN <<"s" \o ToString(i)>>
                     ELSE IF labelled THEN <<"n" \o ToString(i)>>
                     ELSE EmptyName],
         rootId |-> 0,
         subtreeRoots |-> {},
         nameToId |-> <<>>,
         subtreeSize |-> k]

ParentMaps(n) ==
    {par \in [1..(n - 1) -> 0..(n - 1)] : \A c \in 1..(n - 1) : par[c] < c}

\* ((A:1,B:1)Anc0:1,C:2)Anc1; read into the ids 0 (Anc1), 1 (Anc0), 2 (C),
\* 3 (A), 4 (B)
ScenarioEdges == {<<0, 1>>, <<0, 2>>, <<1, 3>>, <<1, 4>>}

ScenarioTree(k) ==
    [nodes |-> 0..4,
     edges |-> ScenarioEdges,
     weight |-> [e \in ScenarioEdges |-> IF e[2] = 2 THEN 2 ELSE 1],
     name |-> [i \in 0..4 |->
                 <<<<"Anc1">>, <<"Anc0">>, <<"C">>, <<"A">>, <<"B">>>>[i + 1]],
     rootId |-> 0,
     subtreeRoots |-> {},
     nameToId |-> <<>>,
     subtreeSize |-> k]

TreesUpTo(m) ==
    UNION {{TreeOf(n, par, labelled, k) :
               par \in ParentMaps(n), labelled \in BOOLEAN,
               k \in 1..MaxSubtreeSize} : n \in 1..m}

InitTrees == TreesUpTo(MaxInitNodes) \cup {ScenarioTree(k) : k \in 1..MaxSubtreeSize}

SmallTrees == TreesUpTo(MaxSmallNodes)

----------------------------------------------------------------------------
(* The calls a client makes on the tree.  last records the latest call:    *)
(* its name, its argument, whether it returned (ok) or which line raised   *)
(* (line), what it returned (result), the tree and subtreeRoots as the     *)
(* call found them (tree, pre), the call before it (prev), and whether     *)
(* nameUnlabeledInternalNodes and computeSubtreeRoots() have been run      *)
(* (named, partitioned).  A call that raises ends the run: planning errors *)
(* are fatal.                                                              *)

Returned(op, arg, line, result) ==
    [op |-> op, arg |-> arg, ok |-> line = 0, line |-> line,
     result |-> result, tree |-> mcTree, prev |-> last.op,
     pre |-> mcTree.subtreeRoots, calls |-> last.calls + 1,
     named |-> op = "nameUnlabeledInternalNodes" \/ last.named,
     partitioned |-> IF op = "computeSubtreeRoots" THEN line = 0
                     ELSE last.partitioned]

Called(op, arg, line) == Returned(op, arg, line, None)

NoCall ==
    [op |-> "init", arg |-> None, ok |-> TRUE, line |-> 0, result |-> None,
     tree |-> None, prev |-> "init", pre |-> {}, calls |-> 0,
     named |-> FALSE, partitioned |-> FALSE]

\* the run has not been aborted and may make another call
CanCall == last.ok /\ last.calls < MaxCalls

driverVars == <<schedule, options, jobs, files, config>>

\* the prefixes and start indices clients pass to
\* nameUnlabeledInternalNodes; the first pair is the default
NameArgs == {<<"Anc", 0>>, <<"n", 1>>}

NameUnlabeledInternalNodes(prefix, startIdx) ==
    /\ CanCall
    /\ mcTree' = nameUnlabeledInternalNodes(mcTree, prefix, startIdx)
    /\ last' = Called("nameUnlabeledInternalNodes", <<prefix, startIdx>>, 0)
    /\ UNCHANGED driverVars

\* computeSubtreeRoots(): root is None, so the set is cleared first
ComputeSubtreeRoots ==
    /\ CanCall
    /\ LET res == computeSubtreeRootsRec(mcTree, {}, mcTree.rootId)
       IN  /\ mcTree' = [mcTree EXCEPT !.subtreeRoots = res.roots]
           /\ last' = Called("computeSubtreeRoots", mcTree.rootId, res.line)
    /\ UNCHANGED driverVars

\* computeSubtreeRoots(root) on a node the caller names
ComputeSubtreeRootsAt(root) ==
    /\ CanCall
    /\ LET res == computeSubtreeRootsRec(mcTree, mcTree.subtreeRoots, root)
       IN  /\ mcTree' = [mcTree EXCEPT !.subtreeRoots = res.roots]
           /\ last' = Called("computeSubtreeRootsAt", root, res.line)
    /\ UNCHANGED driverVars

\* addSelfEdges(): the suffix is "_self"
AddSelfEdges ==
    /\ CanCall
    /\ Cardinality(addSelfEdges(mcTree, "_self").nodes) <= MaxNodes
    /\ mcTree' = addSelfEdges(mcTree, "_self")
    /\ last' = Called("addSelfEdges", None, 0)
    /\ UNCHANGED driverVars

\* the names and weights clients pass to insertAbove, and the names and
\* distances they pass to addOutgroup
InsertArgs == {<<EmptyName, None>>, <<<<"s1">>, 3>>}
OutgroupArgs == {<<<<"og">>, 2>>, <<<<"og">>, 3>>, <<<<"s1">>, 2>>}

\* insertAbove(node, getNextIndex(), newName, newWeight)
InsertAbove(node, newName, newWeight) ==
    /\ CanCall
    /\ Cardinality(mcTree.nodes) < MaxNodes
    /\ LET res == insertAbove(mcTree, node, getNextIndex(mcTree), newName,
                              newWeight)
       IN  /\ mcTree' = res.T
           /\ last' = Called("insertAbove",
                             <<node, getNextIndex(mcTree), newName, newWeight>>,
                             res.line)
    /\ UNCHANGED driverVars

AddOutgroup(ogName, distance) ==
    /\ CanCall
    /\ Cardinality(mcTree.nodes) + 2 <= MaxNodes
    /\ LET res == addOutgroup(mcTree, ogName, distance)
       IN  /\ mcTree' = res.T
           /\ last' = Called("addOutgroup", <<ogName, distance>>, res.line)
    /\ UNCHANGED driverVars

\* the names a client asks about: the registered ones and those of the nodes
QueryNames == DOMAIN mcTree.nameToId \cup {getName(mcTree, n) : n \in mcTree.nodes}

\* extractSubTree(name); an unregistered name raises KeyError on line 81
ExtractSubTree(name) ==
    /\ CanCall
    /\ last' = IF name \in DOMAIN mcTree.nameToId
               THEN Returned("extractSubTree", name, 0,
                             extractSubTree(mcTree, name))
               ELSE Returned("extractSubTree", name, 81, None)
    /\ UNCHANGED <<mcTree, driverVars>>

\* getSubtreeRoot(name); an unregistered name raises KeyError on line 91
GetSubtreeRoot(name) ==
    /\ CanCall
    /\ last' = IF name \in DOMAIN mcTree.nameToId
               THEN LET res == getSubtreeRoot(mcTree, name)
                    IN  Returned("getSubtreeRoot", name, res.line, res.value)
               ELSE Returned("getSubtreeRoot", name, 91, None)
    /\ UNCHANGED <<mcTree, driverVars>>

\* names and suffixes spelled out character by character
Chars == {"a", "b", "."}
NamesUpTo(m) == UNION {[1..k -> Chars] : k \in 0..m}
HumanChr1 == <<"h", "u", "m", "a", "n", ".", "c", "h", "r", "1">>
Self == <<"_", "s", "e", "l", "f">>
SelfNameArgs ==
    (NamesUpTo(MaxNameLen) \X {<<"_">>, <<"_", "s">>}) \cup {<<HumanChr1, Self>>}

\* makeSelfName(name, suffix) on the name and the suffix the state holds
MakeSelfName ==
    /\ last.op = "init"
    /\ last' = Returned("makeSelfName", last.arg, 0,
                        joinTokens(makeSelfName(split(last.arg[1]),
                                                last.arg[2])))
    /\ UNCHANGED <<mcTree, driverVars>>

vars == <<mcTree, last, schedule, options, jobs, files, config>>

\* no driver runs while the tree is planned
NoDriver ==
    /\ schedule = [deps |-> <<>>, followOn |-> <<>>, virtual |-> {}]
    /\ options = [nonRecursive |-> FALSE, event |-> None, overwrite |-> FALSE]
    /\ jobs = <<>>
    /\ files = [done |-> {}, ref |-> {}, hal |-> {}, paths |-> {}]
    /\ config = None

\* partitioning of the trees of up to MaxInitNodes nodes
InitPart ==
    /\ mcTree \in InitTrees
    /\ last = NoCall
    /\ NoDriver

NextPart ==
    \/ \E a \in NameArgs : NameUnlabeledInternalNodes(a[1], a[2])
    \/ ComputeSubtreeRoots

SpecPart == InitPart /\ [][NextPart]_vars

\* the calls that name, partition and grow the tree, from the trees of up
\* to MaxSmallNodes nodes
InitTree ==
    /\ mcTree \in SmallTrees
    /\ last = NoCall
    /\ NoDriver

NextTree ==
    \/ \E a \in NameArgs : NameUnlabeledInternalNodes(a[1], a[2])
    \/ ComputeSubtreeRoots
    \/ AddSelfEdges
    \/ \E node \in mcTree.nodes, a \in InsertArgs : InsertAbove(node, a[1], a[2])
    \/ \E a \in OutgroupArgs : AddOutgroup(a[1], a[2])

SpecTree == InitTree /\ [][NextTree]_vars

\* partitioning again, at the global root or at a node the caller names
NextRepart ==
    \/ \E a \in NameArgs : NameUnlabeledInternalNodes(a[1], a[2])
    \/ ComputeSubtreeRoots
    \/ \E root \in mcTree.nodes : ComputeSubtreeRootsAt(root)
    \/ \E node \in mcTree.nodes, a \in InsertArgs : InsertAbove(node, a[1], a[2])

SpecRepart == InitTree /\ [][NextRepart]_vars

\* every call and every query, from trees of one more node
InitQuery ==
    /\ mcTree \in TreesUpTo(MaxSmallNodes + 1)
    /\ last = NoCall
    /\ NoDriver

NextQuery ==
    \/ \E a \in NameArgs : NameUnlabeledInternalNodes(a[1], a[2])
    \/ ComputeSubtreeRoots
    \/ \E root \in mcTree.nodes : ComputeSubtreeRootsAt(root)
    \/ AddSelfEdges
    \/ \E node \in mcTree.nodes, a \in InsertArgs : InsertAbove(node, a[1], a[2])
    \/ \E a \in OutgroupArgs : AddOutgroup(a[1], a[2])
    \/ \E name \in QueryNames : ExtractSubTree(name)
    \/ \E name \in QueryNames : GetSubtreeRoot(name)

SpecQuery == InitQuery /\ [][NextQuery]_vars

\* self names of the names of up to MaxNameLen characters
InitName ==
    /\ mcTree = ScenarioTree(1)
    /\ \E a \in SelfNameArgs : last = [NoCall EXCEPT !.arg = a]
    /\ NoDriver

NextName == MakeSelfName

SpecName == InitName /\ [][NextName]_vars

----------------------------------------------------------------------------
(* The driver: the targets of cactus_progressive.py on jobTree.             *)
(*                                                                          *)
(* jobs holds the targets created so far, each under its path: the path of *)
(* the target that created it, followed by its position among the targets   *)
(* that run() created.  A target records what created it (pred) and how     *)
(* (rel: as a child or as the follow-on), and where it is: issued, running  *)
(* (run() has begun) or done (run() has returned, and the targets it        *)
(* created are issued).  jobTree starts a child once its creator's run()    *)
(* has returned, and a follow-on once all the children of its creator, with *)
(* everything below them, are complete.                                     *)

Events == 1..MaxEvents

\* how a schedule refers to the events 2..MaxEvents: an event is the
\* dependency of an earlier event, the follow-on of an earlier event, or not
\* referred to; no event has two follow-ons
Links ==
    {link \in [2..MaxEvents -> {<<"none", 0>>} \cup
                               ({"dep", "followOn"} \X (1..MaxEvents))] :
        /\ \A x \in 2..MaxEvents : link[x][1] # "none" => link[x][2] < x
        /\ \A x, y \in 2..MaxEvents :
               (x # y /\ link[x][1] = "followOn" /\ link[y][1] = "followOn")
                   => link[x][2] # link[y][2]}

ScheduleOf(link, virtual) ==
    [deps |-> [e \in Events |-> {x \in 2..MaxEvents : link[x] = <<"dep", e>>}],
     followOn |-> [e \in Events |->
                     IF \E x \in 2..MaxEvents : link[x] = <<"followOn", e>>
                     THEN CHOOSE x \in 2..MaxEvents : link[x] = <<"followOn", e>>
                     ELSE None],
     virtual |-> virtual]

Schedules == {ScheduleOf(link, virtual) : link \in Links, virtual \in SUBSET Events}

\* the three queries of the schedule
deps(event) == schedule.deps[event]
followOn(event) == schedule.followOn[event]
isVirtual(event) == event \in schedule.virtual

\* the events reached from an event through deps and followOn
RECURSIVE Reach(_)
Reach(event) ==
    {event}
    \cup UNION {Reach(d) : d \in deps(event)}
    \cup (IF followOn(event) # None THEN Reach(followOn(event)) ELSE {})

Target(kind, event, pred, rel) ==
    [kind |-> kind, event |-> event, pred |-> pred, rel |-> rel,
     st |-> "issued"]

\* the paths of the targets created so far
Ids == DOMAIN jobs

Children(i) == {c \in Ids : jobs[c].pred = i /\ jobs[c].rel = "child"}

FollowOns(i) == {c \in Ids : jobs[c].pred = i /\ jobs[c].rel = "followOn"}

\* the target, its children and its follow-on have all run to their end
RECURSIVE Complete(_)
Complete(i) ==
    /\ jobs[i].st = "done"
    /\ \A c \in Children(i) \cup FollowOns(i) : Complete(c)

\* jobTree may start the target
Runnable(i) ==
    /\ jobs[i].st = "issued"
    /\ jobs[i].rel = "followOn" => \A c \in Children(jobs[i].pred) : Complete(c)

RunCactusPreprocessorThenProgressiveDownRun_downAsChild(i) ==
    <<Target("CactusPreprocessor", None, i, "child"),
      Target("ProgressiveDown", options.event, i, "child")>>

\* RunCactusPreprocessorThenProgressiveDown.run: the targets it creates
RunCactusPreprocessorThenProgressiveDownRun(i) ==
    <<Target("CactusPreprocessor", None, i, "child"),
      Target("ProgressiveDown", options.event, i, "followOn")>>

ProgressiveDownRun_nextAsChild(i) ==
    LET event == jobs[i].event
        ds == IF ~options.nonRecursive THEN SortedSeq(deps(event)) ELSE <<>>
    IN  [n \in 1..Len(ds) |-> Target("ProgressiveDown", ds[n], i, "child")]
        \o <<Target("ProgressiveNext", event, i, "child")>>

\* ProgressiveDown.run: the targets it creates
ProgressiveDownRun(i) ==
    LET event == jobs[i].event
        ds == IF ~options.nonRecursive THEN SortedSeq(deps(event)) ELSE <<>>
    IN  [n \in 1..Len(ds) |-> Target("ProgressiveDown", ds[n], i, "child")]
        \o <<Target("ProgressiveNext", event, i, "followOn")>>

ProgressiveNextRun_upAlways(i) ==
    LET event == jobs[i].event
        followOnEvent == followOn(event)
    IN  <<Target("ProgressiveUp", event, i, "child")>>
        \o (IF followOnEvent # None
            THEN <<Target("ProgressiveDown", followOnEvent, i, "child")>>
            ELSE <<>>)

ProgressiveNextRun_noFollowOn(i) ==
    IF ~isVirtual(jobs[i].event)
    THEN <<Target("ProgressiveUp", jobs[i].event, i, "child")>> ELSE <<>>

\* ProgressiveNext.run: the targets it creates
ProgressiveNextRun(i) ==
    LET event == jobs[i].event
        followOnEvent == followOn(event)
    IN  (IF ~isVirtual(event)
         THEN <<Target("ProgressiveUp", event, i, "child")>> ELSE <<>>)
        \o (IF followOnEvent # None
            THEN <<Target("ProgressiveDown", followOnEvent, i, "child")>>
            ELSE <<>>)

\* ProgressiveUp.run: the targets it creates; skip says that the event is
\* already done and overwrite is disabled
ProgressiveUpRun(i, skip) ==
    (IF skip THEN <<>>
     ELSE <<Target("CactusSetupPhase", jobs[i].event, i, "child")>>)
    \o <<Target("FinishUp", jobs[i].event, i, "followOn")>>

\* a target of the preprocessor with the arguments of its constructor
PrepTarget(kind, pred, rel, info) ==
    [kind |-> kind, event |-> None, pred |-> pred, rel |-> rel,
     st |-> "issued", info |-> info]

\* the input sequences of the project and the files their preprocessed
\* versions go to
InputSequences == <<"seqA", "seqB">>
inputSequence(q) == <<"in", q>>
outputSequence(q) == <<"out", q>>
OutputSequences == {outputSequence(q) : q \in Range(InputSequences)}

\* a configuration without preprocessor elements
NoPreprocessors ==
    [inputSequences |-> InputSequences, preps |-> <<>>, chunks |-> MaxChunks,
     proportionToSample |-> <<MaxChunks, MaxChunks>>]

\* the elements of seq that are in keep, in their order
RECURSIVE SelectSeq2(_, _)
SelectSeq2(seq, keep) ==
    IF seq = <<>> THEN <<>>
    ELSE (IF Head(seq) \in keep THEN <<Head(seq)>> ELSE <<>>)
         \o SelectSeq2(Tail(seq), keep)

\* CactusPreprocessor.run: a CactusPreprocessor2 for every input sequence
\* whose output file does not exist yet
CactusPreprocessorRun(i) ==
    LET todo == SelectSeq2(config.inputSequences,
                           {q \in Range(config.inputSequences) :
                               outputSequence(q) \notin files.paths})
    IN  [n \in 1..Len(todo) |->
            PrepTarget("CactusPreprocessor2", i, "child",
                       [inputSequenceFileOrDirectory |-> inputSequence(todo[n]),
                        outputSequenceFile |-> outputSequence(todo[n])])]

\* CactusPreprocessor2.run: the targets it creates
CactusPreprocessor2Run(i) ==
    IF Len(config.preps) = 0 THEN <<>>
    ELSE <<PrepTarget("BatchPreprocessor", i, "child",
                      [inSequence |-> jobs[i].info.inputSequenceFileOrDirectory,
                       globalOutSequence |-> jobs[i].info.outputSequenceFile,
                       iteration |-> 0])>>

\* BatchPreprocessor.run: the last iteration, the file the iteration writes
\* and the file it reads
lastIteration(i) == jobs[i].info.iteration = Len(config.preps) - 1

outSeq_alwaysGlobal(i) == jobs[i].info.globalOutSequence

outSeq(i) ==
    IF ~lastIteration(i) THEN <<"tmp", i, jobs[i].info.iteration>>
    ELSE jobs[i].info.globalOutSequence

unmaskedInputFile(i) == <<"unmasked", jobs[i].info.inSequence>>

batchInput(i) ==
    IF config.preps[jobs[i].info.iteration + 1].unmask
    THEN unmaskedInputFile(i) ELSE jobs[i].info.inSequence

batchFollowOn_endAlways(i) ==
    PrepTarget("BatchPreprocessorEnd", i, "followOn",
               [globalOutSequence |-> jobs[i].info.globalOutSequence])

\* ... and its follow-on
batchFollowOn(i) ==
    IF ~lastIteration(i)
    THEN PrepTarget("BatchPreprocessor", i, "followOn",
                    [inSequence |-> outSeq(i),
                     globalOutSequence |-> jobs[i].info.globalOutSequence,
                     iteration |-> jobs[i].info.iteration + 1])
    ELSE PrepTarget("BatchPreprocessorEnd", i, "followOn",
                    [globalOutSequence |-> jobs[i].info.globalOutSequence])

\* BatchPreprocessor.run: the targets it creates
BatchPreprocessorRun(i) ==
    <<IF ~config.preps[jobs[i].info.iteration + 1].chunked
      THEN PrepTarget("PreprocessChunk", i, "child",
                      [seqPaths |-> <<batchInput(i)>>,
                       proportionSampled |-> <<1, 1>>,
                       inChunk |-> batchInput(i), outChunk |-> outSeq(i)])
      ELSE PrepTarget("PreprocessSequence", i, "child",
                      [inSequencePath |-> batchInput(i),
                       outSequencePath |-> outSeq(i)]),
      batchFollowOn(i)>>

\* math.ceil(a / b) for integers a >= 0 and b > 0
ceilDiv(a, b) == (a + b - 1) \div b

inChunkNumber_oneMore(len, proportion) ==
    Max({1, ceilDiv(len * proportion[1], proportion[2]) + 1})

\* the number of chunks a chunk is processed with; the proportion is the
\* fraction proportion[1] / proportion[2]
inChunkNumber(len, proportion) ==
    Max({1, ceilDiv(len * proportion[1], proportion[2])})

\* Python's list[a:b] on a list kept as a sequence
slice(list, a, b) == SubSeq(list, a + 1, Min({b, Len(list)}))

inChunks_noWrap(inChunkList, i, number) ==
    slice(inChunkList, Max({0, i - number \div 2}),
          Max({0, i - number \div 2}) + number)

\* the chunks flanking and including chunk i, taken around the end of the
\* list to its start
inChunks(inChunkList, i, number) ==
    LET j == Max({0, i - number \div 2})
        flank == slice(inChunkList, j, j + number)
    IN  IF Len(flank) < number
        THEN flank \o slice(inChunkList, 0, number - Len(flank))
        ELSE flank

\* the chunks the sequence is cut into and the chunks they are written to
inChunkList(i) == [n \in 1..config.chunks |-> <<"chunkIn", i, n - 1>>]
outChunkList(i) == [n \in 1..config.chunks |-> <<"chunkOut", i, n - 1>>]

\* the two assertions of PreprocessSequence.run hold for chunk i
chunkAsserts(list, i, proportion) ==
    /\ inChunkNumber(Len(list), proportion) <= Len(list)
    /\ inChunkNumber(Len(list), proportion) > 0
    /\ Len(inChunks(list, i, inChunkNumber(Len(list), proportion)))
           = inChunkNumber(Len(list), proportion)

\* PreprocessSequence.run: the targets it creates
PreprocessSequenceRun(i) ==
    LET list == inChunkList(i)
        number == inChunkNumber(Len(list), config.proportionToSample)
    IN  [n \in 1..Len(list) |->
            PrepTarget("PreprocessChunk", i, "child",
                       [seqPaths |-> inChunks(list, n - 1, number),
                        proportionSampled |-> <<number, Len(list)>>,
                        inChunk |-> list[n], outChunk |-> outChunkList(i)[n]])]
        \o <<PrepTarget("MergeChunks", i, "followOn",
                        [chunkList |-> outChunkList(i),
                         outSequencePath |-> jobs[i].info.outSequencePath])>>

\* the tests of ProgressiveUp.run on what an earlier run has left of the
\* event (the experiment builds a reference and a HAL file)
doneDone(event) == event \in files.done
refDone(event) == event \in files.ref
halDone(event) == event \in files.hal

skips_despiteOverwrite(event) ==
    doneDone(event) /\ refDone(event) /\ halDone(event)

\* ProgressiveUp.run leaves the event as it is
skips(event) ==
    ~options.overwrite /\ doneDone(event) /\ refDone(event) /\ halDone(event)

cleaned_keepDone(event) == [files EXCEPT !.ref = @ \ {event}]

\* the files after ProgressiveUp.run has removed the DONE marker and the
\* reference of the event
cleaned(event) ==
    [files EXCEPT !.done = @ \ {event}, !.ref = @ \ {event}]

\* a worker takes up a target that may start
Start(i) ==
    /\ Runnable(i)
    /\ jobs' = [jobs EXCEPT ![i].st = "running"]
    /\ UNCHANGED <<mcTree, last, schedule, options, files, config>>

\* run() of the target returns, having created the targets in created
Ran(i, kind, created) ==
    /\ jobs[i].kind = kind
    /\ jobs[i].st = "running"
    /\ jobs' = [c \in Ids \cup {i \o <<n>> : n \in 1..Len(created)} |->
                  IF c = i THEN [jobs[i] EXCEPT !.st = "done"]
                  ELSE IF c \in Ids THEN jobs[c]
                  ELSE created[c[Len(c)]]]
    /\ UNCHANGED <<mcTree, last, schedule, options, config>>

\* ... without a change to the files the model keeps
Returns(i, kind, created) ==
    /\ Ran(i, kind, created)
    /\ UNCHANGED files

RunCactusPreprocessorThenProgressiveDown(i) ==
    Returns(i, "RunCactusPreprocessorThenProgressiveDown",
            RunCactusPreprocessorThenProgressiveDownRun(i))

\* run() of the target raises: the target fails and issues nothing
Fails(i, kind) ==
    /\ jobs[i].kind = kind
    /\ jobs[i].st = "running"
    /\ jobs' = [jobs EXCEPT ![i].st = "failed"]
    /\ UNCHANGED <<mcTree, last, schedule, options, files, config>>

\* run() of the target returns, having written the files of written
Writes(i, kind, created, written) ==
    /\ Ran(i, kind, created)
    /\ files' = [files EXCEPT !.paths = @ \cup written]

CactusPreprocessor(i) ==
    Returns(i, "CactusPreprocessor", CactusPreprocessorRun(i))

\* without preprocessor elements the input is copied to the output
CactusPreprocessor2(i) ==
    /\ jobs[i].kind = "CactusPreprocessor2"
    /\ IF jobs[i].info.inputSequenceFileOrDirectory
              = jobs[i].info.outputSequenceFile
       THEN Fails(i, "CactusPreprocessor2")
       ELSE Writes(i, "CactusPreprocessor2", CactusPreprocessor2Run(i),
                   IF Len(config.preps) = 0
                   THEN {jobs[i].info.outputSequenceFile} ELSE {})

\* with unmask the input is copied in upper case first
BatchPreprocessor(i) ==
    /\ jobs[i].kind = "BatchPreprocessor"
    /\ IF ~(jobs[i].info.iteration < Len(config.preps))
       THEN Fails(i, "BatchPreprocessor")
       ELSE Writes(i, "BatchPreprocessor", BatchPreprocessorRun(i),
                   IF config.preps[jobs[i].info.iteration + 1].unmask
                   THEN {unmaskedInputFile(i)} ELSE {})

PreprocessSequence(i) ==
    /\ jobs[i].kind = "PreprocessSequence"
    /\ IF \A n \in 1..config.chunks :
              chunkAsserts(inChunkList(i), n - 1, config.proportionToSample)
       THEN Returns(i, "PreprocessSequence", PreprocessSequenceRun(i))
       ELSE Fails(i, "PreprocessSequence")

PreprocessChunk(i) ==
    Writes(i, "PreprocessChunk", <<>>, {jobs[i].info.outChunk})

MergeChunks(i) ==
    Writes(i, "MergeChunks", <<>>, {jobs[i].info.outSequencePath})

BatchPreprocessorEnd(i) == Returns(i, "BatchPreprocessorEnd", <<>>)

ProgressiveDown(i) == Returns(i, "ProgressiveDown", ProgressiveDownRun(i))

ProgressiveNext(i) == Returns(i, "ProgressiveNext", ProgressiveNextRun(i))

ProgressiveUp(i) ==
    /\ Ran(i, "ProgressiveUp", ProgressiveUpRun(i, skips(jobs[i].event)))
    /\ files' = IF skips(jobs[i].event) THEN files
                ELSE cleaned(jobs[i].event)

\* FinishUp.run writes the DONE marker of the event
FinishUp(i) ==
    /\ Ran(i, "FinishUp", <<>>)
    /\ files' = [files EXCEPT !.done = @ \cup {jobs[i].event}]

\* the targets whose run() creates nothing the driver sees
Leaf(i) == Returns(i, "CactusSetupPhase", <<>>)

\* what an earlier run that has completed the events of finished has left
LeftBy(finished) ==
    [done |-> finished, ref |-> finished, hal |-> finished,
     paths |-> OutputSequences]

StartJobTree ==
    jobs = [c \in {<<1>>} |->
              Target("RunCactusPreprocessorThenProgressiveDown", None, <<>>,
                     "root")]

\* a run without overwrite, after an earlier run from the same event that has
\* completed some of the events that are not virtual
InitDriver ==
    /\ mcTree = ScenarioTree(2)
    /\ last = NoCall
    /\ schedule \in Schedules
    /\ options \in [nonRecursive : BOOLEAN, event : {1}, overwrite : {FALSE}]
    /\ files \in {LeftBy(finished) :
                     finished \in SUBSET (Reach(options.event) \ schedule.virtual)}
    /\ config = NoPreprocessors
    /\ StartJobTree

NextDriver ==
    \/ \E i \in Ids : Start(i)
    \/ \E i \in Ids : RunCactusPreprocessorThenProgressiveDown(i)
    \/ \E i \in Ids : CactusPreprocessor(i)
    \/ \E i \in Ids : ProgressiveDown(i)
    \/ \E i \in Ids : ProgressiveNext(i)
    \/ \E i \in Ids : ProgressiveUp(i)
    \/ \E i \in Ids : FinishUp(i)
    \/ \E i \in Ids : Leaf(i)

SpecDriver == InitDriver /\ [][NextDriver]_vars

\* a first, recursive run
InitRecursive ==
    /\ mcTree = ScenarioTree(2)
    /\ last = NoCall
    /\ schedule \in Schedules
    /\ options = [nonRecursive |-> FALSE, event |-> 1, overwrite |-> FALSE]
    /\ files = LeftBy({})
    /\ config = NoPreprocessors
    /\ StartJobTree

\* the preprocessor elements of a configuration: with or without chunking,
\* with or without unmasking
PrepElems == [chunked : BOOLEAN, unmask : BOOLEAN]
Configs ==
    [inputSequences : {<<"seqA">>},
     preps : UNION {[1..n -> PrepElems] : n \in 0..MaxPreps},
     chunks : 1..MaxChunks,
     proportionToSample : {<<num, MaxChunks>> : num \in 1..MaxChunks}]

\* cactus_preprocessor on one input sequence
InitPrep ==
    /\ mcTree = ScenarioTree(2)
    /\ last = NoCall
    /\ schedule = [deps |-> <<>>, followOn |-> <<>>, virtual |-> {}]
    /\ options = [nonRecursive |-> FALSE, event |-> None, overwrite |-> FALSE]
    /\ files = [done |-> {}, ref |-> {}, hal |-> {}, paths |-> {}]
    /\ config \in Configs
    /\ jobs = [c \in {<<1>>} |-> Target("CactusPreprocessor", None, <<>>, "root")]

NextPrep ==
    \/ \E i \in Ids : Start(i)
    \/ \E i \in Ids : CactusPreprocessor(i)
    \/ \E i \in Ids : CactusPreprocessor2(i)
    \/ \E i \in Ids : BatchPreprocessor(i)
    \/ \E i \in Ids : PreprocessSequence(i)
    \/ \E i \in Ids : PreprocessChunk(i)
    \/ \E i \in Ids : MergeChunks(i)
    \/ \E i \in Ids : BatchPreprocessorEnd(i)

SpecPrep == InitPrep /\ [][NextPrep]_vars

\* the progressive driver on a project of two input sequences, of which any
\* may have been preprocessed by an earlier run and which are cut into two
\* chunks, and a schedule where every other event is a dependency of the
\* start event
InitPipeline ==
    /\ mcTree = ScenarioTree(2)
    /\ last = NoCall
    /\ schedule = ScheduleOf([x \in 2..MaxEvents |-> <<"dep", 1>>], {})
    /\ options = [nonRecursive |-> FALSE, event |-> 1, overwrite |-> FALSE]
    /\ files \in [done : {{}}, ref : {{}}, hal : {{}},
                  paths : SUBSET OutputSequences]
    /\ config \in [inputSequences : {InputSequences},
                   preps : UNION {[1..n -> [chunked : BOOLEAN, unmask : {FALSE}]] :
                                     n \in 0..MaxPreps},
                   chunks : {2},
                   proportionToSample : {<<1, 1>>}]
    /\ StartJobTree

NextPipeline == NextDriver \/ NextPrep

SpecPipeline == InitPipeline /\ [][NextPipeline]_vars

\* jobTree leaves no target that may start unstarted, and every run() returns
SpecRecursive == InitRecursive /\ [][NextDriver]_vars /\ WF_vars(NextDriver)

\* a recursive run with or without overwrite over a schedule without virtual
\* events, where an earlier run has left every event its DONE marker, its
\* reference, its HAL file, or any of them
InitDone ==
    /\ mcTree = ScenarioTree(2)
    /\ last = NoCall
    /\ schedule \in {sch \in Schedules : sch.virtual = {}}
    /\ options \in [nonRecursive : {FALSE}, event : {1}, overwrite : BOOLEAN]
    /\ files \in [done : {{}, Events}, ref : {{}, Events}, hal : {{}, Events},
                  paths : {OutputSequences}]
    /\ config = NoPreprocessors
    /\ StartJobTree

SpecDone == InitDone /\ [][NextDriver]_vars

----------------------------------------------------------------------------
(* Claims about the partitioning *)

k == mcTree.subtreeSize

\* computeSubtreeRoots() was the latest call and it returned
AfterPartition == last.op = "computeSubtreeRoots" /\ last.ok

\* the closure of a subtree-root
Closure(r) == traverseSubtree(mcTree, r, r)

\* the subtree-roots whose closure holds n
Owners(n) == {r \in mcTree.subtreeRoots : n \in Closure(r)}

RECURSIVE Descendants(_)
Descendants(n) ==
    LET cs == Range(getChildren(mcTree, n))
    IN  cs \cup UNION {Descendants(c) : c \in cs}

\* the nearest proper ancestor of n that is a subtree-root (None without one)
RECURSIVE EnclosingRoot(_)
EnclosingRoot(n) ==
    LET parent == getParent(mcTree, n)
    IN  IF parent = None THEN None
        ELSE IF parent \in mcTree.subtreeRoots THEN parent
        ELSE EnclosingRoot(parent)

\* the nodes of the next level below a frontier
Below(frontier) ==
    Flatten([i \in 1..Len(frontier) |-> getChildren(mcTree, frontier[i])])

Overfull(n) == Len(getChildren(mcTree, n)) > k

\* C3: after computeSubtreeRoots() has completed, getSubtreeLeaves(r) passes
\* its assertion and returns at most subtreeSize nodes, for every
\* subtree-root r
C3_FrontierWithinSubtreeSize ==
    AfterPartition =>
        \A r \in mcTree.subtreeRoots :
            /\ getSubtreeLeavesAssert(mcTree, r)
            /\ Len(getSubtreeLeaves(mcTree, r)) <= k

\* a subtree-root whose frontier is full and stopped growing because the
\* next level would exceed subtreeSize
C3_Witness ==
    /\ AfterPartition
    /\ \E r \in mcTree.subtreeRoots :
           /\ Len(getSubtreeLeaves(mcTree, r)) = k
           /\ Len(Below(getSubtreeLeaves(mcTree, r))) > k

\* C4 as stated: after computeSubtreeRoots(), every node is in the closure
\* of exactly one subtree-root
C4_ExactlyOneClosure ==
    AfterPartition => \A n \in mcTree.nodes : Cardinality(Owners(n)) = 1

\* C4 as amended: after computeSubtreeRoots(), every node is in the closure
\* of at least one subtree-root; a node that is no subtree-root, and the
\* global root, are in exactly one; a subtree-root other than the global root
\* is in exactly two, its own and that of the nearest subtree-root above it
C4_ClosuresCoverAndMeetAtRoots ==
    AfterPartition =>
        \A n \in mcTree.nodes :
            IF n \in mcTree.subtreeRoots /\ n # mcTree.rootId
            THEN Owners(n) = {n, EnclosingRoot(n)} /\ EnclosingRoot(n) # None
            ELSE Cardinality(Owners(n)) = 1

\* a partition with a nested subtree-root that has nodes of its own below it
\* and with an internal node that is no subtree-root
C4_Witness ==
    /\ AfterPartition
    /\ \E n \in mcTree.subtreeRoots :
           n # mcTree.rootId /\ Cardinality(Closure(n)) > 1
    /\ \E n \in mcTree.nodes \ mcTree.subtreeRoots : ~isLeaf(mcTree, n)

\* the leaves of the tree induced on the closure of r: the nodes of the
\* closure with no child in it
CladeLeaves(r) ==
    {n \in Closure(r) :
        \A c \in Range(getChildren(mcTree, n)) : c \notin Closure(r)}

\* C5: after computeSubtreeRoots(), the bounded clade of every subtree-root
\* has at most subtreeSize leaves
C5_CladeLeavesWithinSubtreeSize ==
    AfterPartition =>
        \A r \in mcTree.subtreeRoots : Cardinality(CladeLeaves(r)) <= k

\* C6 as stated: when computeSubtreeRoots() reaches a node with more than
\* subtreeSize children the call does not fail, the node is a subtree-root
\* with an empty frontier and none of its descendants is a subtree-root
C6_OverfullNodeAccepted ==
    last.op = "computeSubtreeRoots" =>
        \A n \in mcTree.subtreeRoots :
            Overfull(n) =>
                /\ last.ok
                /\ getSubtreeLeaves(mcTree, n) = <<>>
                /\ Descendants(n) \cap mcTree.subtreeRoots = {}

\* C6 as amended: when computeSubtreeRoots() reaches a node with more than
\* subtreeSize children, the assertion of getSubtreeLeaves aborts the call;
\* the node is a subtree-root by then and none of its descendants is one
C6_OverfullNodeAborts ==
    last.op = "computeSubtreeRoots" =>
        \A n \in mcTree.subtreeRoots :
            Overfull(n) =>
                /\ ~last.ok
                /\ last.line = 105
                /\ Descendants(n) \cap mcTree.subtreeRoots = {}

\* the call was aborted at a node below the root that has descendants two
\* levels down
C6_Witness ==
    /\ last.op = "computeSubtreeRoots"
    /\ ~last.ok
    /\ \E n \in mcTree.subtreeRoots :
           /\ Overfull(n)
           /\ n # mcTree.rootId
           /\ \E c \in Descendants(n) : ~isLeaf(mcTree, c)

IsScenario ==
    /\ mcTree.edges = ScenarioEdges
    /\ mcTree.name = ScenarioTree(2).name
    /\ k = 2

\* C7: after computeSubtreeRoots(), subtreeRoots is the global root together
\* with the internal nodes of the frontiers of the subtree-roots, it holds no
\* leaf but a leaf root, and on ((A:1,B:1)Anc0:1,C:2)Anc1 with subtreeSize 2
\* it is {Anc1, Anc0}
C7_SubtreeRootsAreRootAndInnerFrontier ==
    AfterPartition =>
        /\ mcTree.subtreeRoots =
               {mcTree.rootId} \cup
               {n \in mcTree.nodes :
                   /\ ~isLeaf(mcTree, n)
                   /\ \E r \in mcTree.subtreeRoots :
                          n \in Range(getSubtreeLeaves(mcTree, r))}
        /\ \A n \in mcTree.subtreeRoots :
               isLeaf(mcTree, n) => n = mcTree.rootId
        /\ IsScenario =>
               {getName(mcTree, r) : r \in mcTree.subtreeRoots}
                   = {<<"Anc1">>, <<"Anc0">>}

C7_Witness == AfterPartition /\ IsScenario

\* C10: a call of computeSubtreeRoots() that aborts leaves subtreeRoots as
\* it found it
C10_AbortLeavesSubtreeRoots ==
    (last.op = "computeSubtreeRoots" /\ ~last.ok) =>
        mcTree.subtreeRoots = last.pre

----------------------------------------------------------------------------
(* Claims about the partition under later calls *)

\* C8: once computeSubtreeRoots() has returned, rootId is a subtree-root
\* after every later call
C8_RootStaysSubtreeRoot ==
    (last.partitioned /\ last.ok) => mcTree.rootId \in mcTree.subtreeRoots

IsComputeCall == last.op \in {"computeSubtreeRoots", "computeSubtreeRootsAt"}

\* C9 as stated: computeSubtreeRoots on a root that is already a
\* subtree-root, with or without the root given, fails and leaves
\* subtreeRoots unchanged
C9_RepartitionFails ==
    (IsComputeCall /\ last.arg \in last.pre) =>
        ~last.ok /\ mcTree.subtreeRoots = last.pre

\* C9 as amended: computeSubtreeRoots(root) with a given root that is
\* already a subtree-root fails on its first assertion and leaves
\* subtreeRoots unchanged; computeSubtreeRoots() without a root never fails
\* on that assertion, and when it returns the root is a subtree-root again
C9_GivenRootFailsDefaultRootRestarts ==
    /\ (last.op = "computeSubtreeRootsAt" /\ last.arg \in last.pre) =>
           ~last.ok /\ last.line = 53 /\ mcTree.subtreeRoots = last.pre
    /\ last.op = "computeSubtreeRoots" =>
           last.line # 53 /\ (last.ok => mcTree.rootId \in mcTree.subtreeRoots)

\* computeSubtreeRoots(root) was called on a subtree-root below the global
\* root
C9_Witness ==
    /\ last.op = "computeSubtreeRootsAt"
    /\ last.arg \in last.pre
    /\ last.arg # mcTree.rootId

----------------------------------------------------------------------------
(* Claims about the growth of the tree *)

\* the tree as the latest call found it
T0 == last.tree

\* the nodes the latest call created
NewNodes == mcTree.nodes \ T0.nodes

Parents(T, n) == {e[1] : e \in {d \in T.edges : d[2] = n}}

RECURSIVE ReachableFrom(_, _)
ReachableFrom(T, S) ==
    LET N == S \cup {e[2] : e \in {d \in T.edges : d[1] \in S}}
    IN  IF N = S THEN S ELSE ReachableFrom(T, N)

IsRootedTree(T) ==
    /\ T.rootId \in T.nodes
    /\ \A e \in T.edges : e[1] \in T.nodes /\ e[2] \in T.nodes
    /\ Parents(T, T.rootId) = {}
    /\ \A n \in T.nodes \ {T.rootId} : Cardinality(Parents(T, n)) = 1
    /\ ReachableFrom(T, {T.rootId}) = T.nodes

\* the nodes addSelfEdges is to put a self node above: the leaves and the
\* subtree-roots other than the global root
Marked(T) ==
    {n \in T.nodes : (n \in T.subtreeRoots \/ isLeaf(T, n)) /\ n # T.rootId}

IsGrowthCall == last.op \in {"insertAbove", "addSelfEdges", "addOutgroup"}

\* C11: after any sequence of insertAbove (with an unused node id),
\* addSelfEdges and addOutgroup the structure is a single rooted tree: the
\* root has no parent, every other node has exactly one, every node is
\* reachable from the root; and the ids addSelfEdges and addOutgroup create
\* were not in use: every earlier node is still there under its name, and
\* the tree has grown by one node per self node, and by one or two nodes for
\* an outgroup
C11_StaysRootedTree ==
    /\ IsRootedTree(mcTree)
    /\ (IsGrowthCall /\ last.ok) =>
           /\ T0.nodes \subseteq mcTree.nodes
           /\ \A n \in T0.nodes : getName(mcTree, n) = getName(T0, n)
    /\ (last.op = "addSelfEdges" /\ last.ok) =>
           Cardinality(NewNodes) = Cardinality(Marked(T0))
    /\ (last.op = "addOutgroup" /\ last.ok) =>
           Cardinality(NewNodes) = IF isLeaf(T0, T0.rootId) THEN 2 ELSE 1

\* addSelfEdges has put self nodes into a tree that an insertAbove or an
\* addOutgroup had grown before
C11_Witness ==
    /\ last.op = "addSelfEdges"
    /\ last.ok
    /\ last.prev \in {"insertAbove", "addOutgroup"}
    /\ Cardinality(NewNodes) >= 2

Outgroup(ogName) ==
    {n \in NewNodes : getName(mcTree, n) = ogName}

\* C13: addOutgroup(name, distance) on a tree whose root is a leaf makes a
\* new root with two children, the former root and the outgroup leaf, each
\* at half the distance, the two weights adding up to distance; on a tree
\* whose root is no leaf it adds the outgroup leaf under the unchanged root
\* at the full distance and nothing else
C13_OutgroupAtHalfOrFullDistance ==
    (last.op = "addOutgroup" /\ last.ok) =>
        LET ogName == last.arg[1]
            distance == last.arg[2]
            root == mcTree.rootId
        IN  /\ Cardinality(Outgroup(ogName)) = 1
            /\ \A og \in Outgroup(ogName) :
                   IF isLeaf(T0, T0.rootId)
                   THEN /\ root \in NewNodes
                        /\ NewNodes = {root, og}
                        /\ Range(getChildren(mcTree, root)) = {T0.rootId, og}
                        /\ isLeaf(mcTree, og)
                        /\ 2 * getWeight(mcTree, root, T0.rootId) = distance
                        /\ 2 * getWeight(mcTree, root, og) = distance
                        /\ getWeight(mcTree, root, T0.rootId)
                               + getWeight(mcTree, root, og) = distance
                   ELSE /\ root = T0.rootId
                        /\ NewNodes = {og}
                        /\ mcTree.edges = T0.edges \cup {<<root, og>>}
                        /\ isLeaf(mcTree, og)
                        /\ getWeight(mcTree, root, og) = distance

\* C14: addOutgroup(name, distance) fails whenever a node of the tree
\* carries the name already, and the failed call leaves the tree as it was
C14_OutgroupNameConflictFails ==
    (/\ last.op = "addOutgroup"
     /\ \E n \in T0.nodes : getName(T0, n) = last.arg[1]) =>
        ~last.ok /\ mcTree = T0

\* the weights of the edges in E are as the latest call found them
SameWeights(E) == \A e \in E : mcTree.weight[e] = T0.weight[e]

\* C16: insertAbove(node, newNode, newName, newWeight) on a node with the
\* parent p replaces the edge p->node by p->newNode, which gets the former
\* weight of p->node, and newNode->node, which gets newWeight, and leaves
\* every other edge and weight and the root as they were; on the root it
\* makes newNode the root, with node as its only child at weight newWeight
C16_InsertAboveRewiresOneEdge ==
    (last.op = "insertAbove" /\ last.ok) =>
        LET node == last.arg[1]
            newNode == last.arg[2]
            newWeight == last.arg[4]
            p == getParent(T0, node)
        IN  IF p # None
            THEN /\ mcTree.edges = (T0.edges \ {<<p, node>>})
                                       \cup {<<p, newNode>>, <<newNode, node>>}
                 /\ getWeight(mcTree, p, newNode) = getWeight(T0, p, node)
                 /\ getWeight(mcTree, newNode, node) = newWeight
                 /\ SameWeights(T0.edges \ {<<p, node>>})
                 /\ mcTree.rootId = T0.rootId
            ELSE /\ mcTree.rootId = newNode
                 /\ getChildren(mcTree, newNode) = <<node>>
                 /\ mcTree.edges = T0.edges \cup {<<newNode, node>>}
                 /\ getWeight(mcTree, newNode, node) = newWeight
                 /\ SameWeights(T0.edges)

\* insertAbove has put a node with a weight above a node whose parent edge
\* had a weight and whose parent has other children
C16_Witness ==
    /\ last.op = "insertAbove"
    /\ last.ok
    /\ last.arg[4] # None
    /\ getParent(T0, last.arg[1]) # None
    /\ getWeight(T0, getParent(T0, last.arg[1]), last.arg[1]) # None
    /\ Len(getChildren(T0, getParent(T0, last.arg[1]))) > 1

\* C28: for every node v that addSelfEdges puts a self node s above, with
\* the former parent p and the former weight w of p->v, the new edges p->s
\* and s->v both carry w, whatever the id of p
C28_SelfEdgesCarryWeight ==
    (last.op = "addSelfEdges" /\ last.ok) =>
        \A v \in Marked(T0) :
            LET p == getParent(T0, v)
                s == getParent(mcTree, v)
            IN  /\ getWeight(mcTree, p, s) = getWeight(T0, p, v)
                /\ getWeight(mcTree, s, v) = getWeight(T0, p, v)

\* the name without the n characters after its first pos ones
removeAt(name, pos, n) ==
    SubSeq(name, 1, pos) \o SubSeq(name, pos + n + 1, Len(name))

\* C22: makeSelfName(name, suffix) is the name with the suffix put in right
\* after its first dot-separated token, all that follows kept as it is; a
\* name without a dot becomes name + suffix, "human.chr1" with "_self"
\* becomes "human_self.chr1", and taking the suffix out at that place gives
\* the name back
C22_SelfNameInsertsSuffixAfterFirstToken ==
    last.op = "makeSelfName" =>
        LET name == last.arg[1]
            suffix == last.arg[2]
            pos == firstDot(name) - 1
        IN  /\ last.result = SubSeq(name, 1, pos) \o suffix
                             \o SubSeq(name, pos + 1, Len(name))
            /\ (\A c \in 1..Len(name) : name[c] # ".")
                   => last.result = name \o suffix
            /\ (name = HumanChr1 /\ suffix = Self)
                   => last.result = <<"h", "u", "m", "a", "n", "_", "s", "e",
                                      "l", "f", ".", "c", "h", "r", "1">>
            /\ removeAt(last.result, pos, Len(suffix)) = name

\* the self name of "human.chr1" has been made
C22_Witness ==
    /\ last.op = "makeSelfName"
    /\ last.arg = <<HumanChr1, Self>>
    /\ Len(last.result) = Len(HumanChr1) + Len(Self)

----------------------------------------------------------------------------
(* Claims about the names *)

IsNameCall == last.op = "nameUnlabeledInternalNodes"

\* C17: nameUnlabeledInternalNodes, with any prefix and start index and
\* after any calls, leaves the name of every node that has one, and of every
\* leaf, as it was; called directly after itself it leaves all names and
\* nameToId as they were
C17_NamingKeepsNames ==
    IsNameCall =>
        /\ \A n \in T0.nodes :
               (hasName(T0, n) \/ isLeaf(T0, n)) =>
                   getName(mcTree, n) = getName(T0, n)
        /\ last.prev = "nameUnlabeledInternalNodes" =>
               /\ mcTree.name = T0.name
               /\ mcTree.nameToId = T0.nameToId

\* a call with the prefix n directly after a call that had generated the
\* name Anc0, on a tree that has a node without a name and nodes with names
\* the tree came with
C17_Witness ==
    /\ IsNameCall
    /\ last.prev = "nameUnlabeledInternalNodes"
    /\ last.arg = <<"n", 1>>
    /\ \E n \in mcTree.nodes : getName(mcTree, n) = <<"Anc0">>
    /\ \E n \in mcTree.nodes : hasName(mcTree, n) /\ ~isLeaf(mcTree, n)
                                  /\ getName(mcTree, n) # <<"Anc0">>

\* the name the latest call was to put a new node in under ("" for none)
InsertedName ==
    IF last.op = "insertAbove" THEN last.arg[3]
    ELSE IF last.op = "addOutgroup" THEN last.arg[1]
    ELSE EmptyName

\* C18: putting a node in under a name another node carries fails; and in
\* every state after nameUnlabeledInternalNodes no two nodes share a name
\* other than "", and nameToId holds every such name with the node that
\* carries it
C18_NamesUniqueAndIndexed ==
    /\ (/\ InsertedName # EmptyName
        /\ \E n \in T0.nodes : getName(T0, n) = InsertedName) => ~last.ok
    /\ last.named =>
           /\ \A a, b \in mcTree.nodes :
                  (a # b /\ hasName(mcTree, a)) =>
                      getName(mcTree, a) # getName(mcTree, b)
           /\ \A n \in mcTree.nodes :
                  hasName(mcTree, n) =>
                      /\ getName(mcTree, n) \in DOMAIN mcTree.nameToId
                      /\ mcTree.nameToId[getName(mcTree, n)] = n

----------------------------------------------------------------------------
(* Claims about the queries *)

RECURSIVE Ancestors(_)
Ancestors(n) ==
    LET parent == getParent(mcTree, n)
    IN  IF parent = None THEN {} ELSE {parent} \cup Ancestors(parent)

\* root, and the nodes below it that no subtree-root separates from it
Within(root) ==
    {root} \cup
    {n \in Descendants(root) :
        \A a \in Ancestors(n) \cap Descendants(root) :
            a \notin mcTree.subtreeRoots}

\* C15: on a partitioned tree, extractSubTree(name) for a registered name
\* returns a tree whose root is the node named name, whose nodes are that
\* node and its descendants down to, and including but not beyond, the
\* nested subtree-roots, and whose subtreeRoots are the subtree-roots of the
\* original among these nodes
C15_ExtractKeepsSubtreeRoots ==
    (last.op = "extractSubTree" /\ last.ok /\ last.partitioned) =>
        LET root == mcTree.nameToId[last.arg]
        IN  /\ last.result.rootId = root
            /\ getName(last.result, root) = last.arg
            /\ last.result.nodes = Within(root)
            /\ last.result.subtreeRoots =
                   mcTree.subtreeRoots \cap last.result.nodes

\* computeSubtreeRoots() has run, and subtreeRoots is what it leaves on the
\* tree as it is now
Partitioned ==
    /\ last.partitioned
    /\ mcTree.subtreeRoots =
           computeSubtreeRootsRec(mcTree, {}, mcTree.rootId).roots

\* C19: on a partitioned tree, getSubtreeRoot(name) for the registered name
\* of a node other than the root returns the name of the nearest proper
\* ancestor of the node that is a subtree-root
C19_SubtreeRootOfNode ==
    (/\ last.op = "getSubtreeRoot"
     /\ Partitioned
     /\ last.arg \in DOMAIN mcTree.nameToId
     /\ mcTree.nameToId[last.arg] # mcTree.rootId) =>
        /\ last.ok
        /\ EnclosingRoot(mcTree.nameToId[last.arg]) # None
        /\ last.result =
               getName(mcTree, EnclosingRoot(mcTree.nameToId[last.arg]))

----------------------------------------------------------------------------
(* Claims about the driver *)

Started(i) == jobs[i].st # "issued"

\* every target with the given event and kind
TargetsOf(kind, event) ==
    {c \in Ids : jobs[c].kind = kind /\ jobs[c].event = event}

\* all processing of the event and of what it leads to has come to its end:
\* every event reached from it has had its ProgressiveDown, ProgressiveNext
\* and, unless virtual, its ProgressiveUp with FinishUp, all of them done
AllProcessed(event) ==
    \A x \in Reach(event) :
        /\ TargetsOf("ProgressiveDown", x) # {}
        /\ TargetsOf("ProgressiveNext", x) # {}
        /\ ~isVirtual(x) =>
               /\ TargetsOf("ProgressiveUp", x) # {}
               /\ TargetsOf("FinishUp", x) # {}
        /\ \A c \in Ids : jobs[c].event = x => Complete(c)

\* C1: in a recursive run, when ProgressiveUp(e) has started, all processing
\* of every event of deps(e) has completed
C1_DepsCompleteBeforeOwnWork ==
    ~options.nonRecursive =>
        \A i \in Ids :
            (jobs[i].kind = "ProgressiveUp" /\ Started(i)) =>
                \A d \in deps(jobs[i].event) : AllProcessed(d)

\* the own work of an event has started while the event has a dependency
\* that has a follow-on and own work of its own
C1_Witness ==
    /\ ~options.nonRecursive
    /\ \E i \in Ids :
           /\ jobs[i].kind = "ProgressiveUp"
           /\ Started(i)
           /\ \E d \in deps(jobs[i].event) :
                  ~isVirtual(d) /\ followOn(d) # None

\* the own work of the event: ProgressiveUp, its children and FinishUp
OwnWorkComplete(event) ==
    /\ TargetsOf("ProgressiveUp", event) # {}
    /\ \A c \in TargetsOf("ProgressiveUp", event) : Complete(c)

OwnWorkInProgress(event) ==
    \E c \in TargetsOf("ProgressiveUp", event) : Started(c) /\ ~Complete(c)

\* C2: for followOn(e) = f, ProgressiveDown(f) starts only after the own
\* work of e has completed, and the own work of e and of f is never in
\* progress at the same time
C2_FollowOnAfterOwnWork ==
    \A e \in Events :
        (followOn(e) # None /\ ~isVirtual(e)) =>
            /\ \A c \in TargetsOf("ProgressiveDown", followOn(e)) :
                   Started(c) => OwnWorkComplete(e)
            /\ ~(OwnWorkInProgress(e) /\ OwnWorkInProgress(followOn(e)))

\* ProgressiveDown(d) has been created for every event d of deps(e), and
\* each has completed with everything below it
DepsDescended(e) ==
    \A d \in deps(e) :
        /\ TargetsOf("ProgressiveDown", d) # {}
        /\ \A c \in TargetsOf("ProgressiveDown", d) : Complete(c)

\* once ProgressiveNext(e) has returned, ProgressiveDown(followOn(e)) exists
FollowOnDispatched(e) ==
    \A i \in TargetsOf("ProgressiveNext", e) :
        (jobs[i].st = "done" /\ followOn(e) # None) =>
            TargetsOf("ProgressiveDown", followOn(e)) # {}

IsWalk(i) ==
    jobs[i].kind \in {"ProgressiveDown", "ProgressiveNext", "ProgressiveUp"}

\* C21: with nonRecursive set, every ProgressiveDown, ProgressiveNext and
\* ProgressiveUp the run creates is for the event the run was started at
C21_NonRecursiveProcessesOnlyStartEvent ==
    options.nonRecursive =>
        \A i \in Ids : IsWalk(i) => jobs[i].event = options.event

\* every target the run has created has run
AllDone == \A i \in Ids : jobs[i].st = "done"

\* how many targets of the kind an event has after a recursive run from the
\* start event: one if the walk reaches the event, none otherwise
Expected(kind, e) ==
    IF /\ e \in Reach(options.event)
       /\ kind = "ProgressiveUp" => ~isVirtual(e)
    THEN 1 ELSE 0

OnceEach ==
    \A e \in Events :
        \A kind \in {"ProgressiveDown", "ProgressiveNext", "ProgressiveUp"} :
            Cardinality(TargetsOf(kind, e)) = Expected(kind, e)

AtMostOnceEach ==
    \A e \in Events :
        \A kind \in {"ProgressiveDown", "ProgressiveNext", "ProgressiveUp"} :
            Cardinality(TargetsOf(kind, e)) <= Expected(kind, e)

Work(i) == {c \in Children(i) : jobs[c].kind = "CactusSetupPhase"}

\* C25: once ProgressiveUp(e) has returned, the DONE marker of e is absent
\* as long as a work target of e or anything below it has not completed, and
\* present once FinishUp(e) has run; ProgressiveUp has added no work target
\* exactly if overwrite is off and the DONE marker, the reference and the
\* HAL file of e are there, and then the DONE marker stays
C25_DoneMarkerOnlyWhenComplete ==
    \A i \in Ids :
        (jobs[i].kind = "ProgressiveUp" /\ jobs[i].st = "done") =>
            LET e == jobs[i].event
            IN  /\ (\E c \in Work(i) : ~Complete(c)) => ~doneDone(e)
                /\ (\A f \in FollowOns(i) : jobs[f].st # "done")
                       => (doneDone(e) <=> Work(i) = {})
                /\ (\E f \in FollowOns(i) : jobs[f].st = "done") => doneDone(e)
                /\ Work(i) = {} <=>
                       (~options.overwrite /\ doneDone(e) /\ refDone(e)
                        /\ halDone(e))

\* with overwrite on, the work of an event that had its DONE marker and its
\* outputs is running, and the work of another such event was done over and
\* has its marker again
C25_Witness ==
    /\ options.overwrite
    /\ \E i, j \in Ids :
           /\ jobs[i].kind = "ProgressiveUp" /\ jobs[j].kind = "ProgressiveUp"
           /\ \E c \in Work(i) : jobs[c].st = "running"
           /\ halDone(jobs[i].event)
           /\ Work(j) # {}
           /\ \E f \in FollowOns(j) : jobs[f].st = "done"
           /\ halDone(jobs[j].event)

----------------------------------------------------------------------------
(* Claims about the preprocessor *)

PrepKinds ==
    {"CactusPreprocessor", "CactusPreprocessor2", "BatchPreprocessor",
     "BatchPreprocessorEnd", "PreprocessSequence", "PreprocessChunk",
     "MergeChunks"}

AlignKinds ==
    {"ProgressiveDown", "ProgressiveNext", "ProgressiveUp", "CactusSetupPhase",
     "FinishUp"}

OfKind(kind) == {i \in Ids : jobs[i].kind = kind}

\* C23: when a ProgressiveDown, or any target of the alignment of an event,
\* has started, every target of the preprocessor has run and every input
\* sequence has its preprocessed file
C23_PreprocessorCompleteBeforeProgressiveDown ==
    \A i \in Ids :
        (jobs[i].kind \in AlignKinds /\ Started(i)) =>
            /\ \A j \in Ids : jobs[j].kind \in PrepKinds => jobs[j].st = "done"
            /\ OutputSequences \subseteq files.paths

\* ProgressiveDown has started after both sequences have gone through two
\* preprocessors, one that cuts the sequence into chunks and one that does
\* not
C23_Witness ==
    /\ \E i \in OfKind("ProgressiveDown") : Started(i)
    /\ Cardinality(OfKind("CactusPreprocessor2")) = 2
    /\ Cardinality(OfKind("BatchPreprocessorEnd")) = 2
    /\ Cardinality(OfKind("MergeChunks")) = 2
    /\ \E i \in OfKind("BatchPreprocessor") :
           \E c \in Children(i) : jobs[c].kind = "PreprocessChunk"

\* the file the targets below an iteration write at last
BatchOutput(b) ==
    {IF jobs[c].kind = "PreprocessChunk" THEN jobs[c].info.outChunk
     ELSE jobs[c].info.outSequencePath : c \in Children(b)}

\* the iterations of the chain a CactusPreprocessor2 has started
RECURSIVE Chain(_)
Chain(b) ==
    {b} \cup UNION {Chain(f) : f \in {f \in FollowOns(b) :
                                         jobs[f].kind = "BatchPreprocessor"}}

\* C26: the BatchPreprocessor iterations of a sequence are a chain 0, 1, ...
\* of follow-ons without a gap or a repetition; an iteration that has started
\* has the output of the iteration before as its input, written by then, all
\* targets below that iteration having completed; the last iteration, and
\* only it, writes the global output sequence, every other one a temporary
\* file; BatchPreprocessorEnd is the follow-on of the last iteration only,
\* and when all targets have run each chain has all its iterations and one
\* BatchPreprocessorEnd
C26_BatchIterationsInOrder ==
    /\ \A b \in OfKind("BatchPreprocessor") :
           LET it == jobs[b].info.iteration
               p == jobs[b].pred
           IN  /\ jobs[b].st # "failed"
               /\ it < Len(config.preps)
               /\ Cardinality(FollowOns(b)) <= 1
               /\ it = 0 <=> jobs[p].kind = "CactusPreprocessor2"
               /\ it > 0 =>
                      /\ jobs[p].kind = "BatchPreprocessor"
                      /\ jobs[b].rel = "followOn"
                      /\ jobs[p].info.iteration = it - 1
                      /\ BatchOutput(p) = {jobs[b].info.inSequence}
                      /\ Started(b) =>
                             /\ \A c \in Children(p) : Complete(c)
                             /\ jobs[b].info.inSequence \in files.paths
               /\ \A out \in BatchOutput(b) :
                      IF it = Len(config.preps) - 1
                      THEN out = jobs[b].info.globalOutSequence
                      ELSE out \notin OutputSequences /\ out[1] = "tmp"
               /\ \A f \in FollowOns(b) :
                      jobs[f].kind = "BatchPreprocessorEnd"
                          <=> it = Len(config.preps) - 1
    /\ \A e \in OfKind("BatchPreprocessorEnd") :
           /\ jobs[jobs[e].pred].kind = "BatchPreprocessor"
           /\ jobs[e].rel = "followOn"
           /\ Started(e) =>
                  /\ \A c \in Children(jobs[e].pred) : Complete(c)
                  /\ jobs[e].info.globalOutSequence \in files.paths
    /\ \A c \in OfKind("CactusPreprocessor2") :
           /\ Cardinality(Children(c)) <= 1
           /\ AllDone =>
                  \A b \in Children(c) :
                      /\ {jobs[x].info.iteration : x \in Chain(b)}
                             = 0..(Len(config.preps) - 1)
                      /\ Cardinality(Chain(b)) = Len(config.preps)
                      /\ Cardinality({e \in OfKind("BatchPreprocessorEnd") :
                                         jobs[e].pred \in Chain(b)}) = 1

\* BatchPreprocessorEnd has run after a chain of MaxPreps iterations, some
\* with chunks and some without
C26_Witness ==
    /\ Len(config.preps) = MaxPreps
    /\ \E i, j \in DOMAIN config.preps :
           config.preps[i].chunked /\ ~config.preps[j].chunked
    /\ \E e \in OfKind("BatchPreprocessorEnd") : jobs[e].st = "done"

\* the least m >= 1 with m >= len * proportion
SampleSize(len, proportion) ==
    CHOOSE m \in 1..(len + 1) :
        /\ m * proportion[2] >= len * proportion[1]
        /\ m = 1 \/ (m - 1) * proportion[2] < len * proportion[1]

\* C27: PreprocessSequence.run does not fail; once it has returned there is
\* one PreprocessChunk per input chunk, in their order, each with a window
\* of max(1, ceil(L * proportionToSample)) <= L different input chunks that
\* has the chunk itself in it, and one MergeChunks with the output chunks
\* 0..L-1 in their order, which starts only after every PreprocessChunk has
\* run
C27_ChunkWindowsAndMerge ==
    \A s \in OfKind("PreprocessSequence") :
        LET len == config.chunks
            number == SampleSize(len, config.proportionToSample)
            chunks == {c \in Children(s) : jobs[c].kind = "PreprocessChunk"}
        IN  /\ jobs[s].st # "failed"
            /\ jobs[s].st = "done" =>
                   /\ number <= len
                   /\ Children(s) = {s \o <<n>> : n \in 1..len}
                   /\ chunks = Children(s)
                   /\ \A n \in 1..len :
                          LET info == jobs[s \o <<n>>].info
                          IN  /\ info.inChunk = <<"chunkIn", s, n - 1>>
                              /\ info.outChunk = <<"chunkOut", s, n - 1>>
                              /\ Len(info.seqPaths) = number
                              /\ Cardinality(Range(info.seqPaths)) = number
                              /\ Range(info.seqPaths)
                                     \subseteq Range(inChunkList(s))
                              /\ info.inChunk \in Range(info.seqPaths)
                   /\ Cardinality(FollowOns(s)) = 1
                   /\ \A m \in FollowOns(s) :
                          /\ jobs[m].kind = "MergeChunks"
                          /\ jobs[m].info.chunkList
                                 = [n \in 1..len |-> <<"chunkOut", s, n - 1>>]
                          /\ Started(m) =>
                                 \A c \in chunks : jobs[c].st = "done"

\* MergeChunks has run on MaxChunks chunks, each processed with a window of
\* more than one and less than all chunks, one of which goes around the end
C27_Witness ==
    /\ config.chunks = MaxChunks
    /\ \E m \in OfKind("MergeChunks") :
           /\ jobs[m].st = "done"
           /\ \E c \in Children(jobs[m].pred) :
                  /\ Len(jobs[c].info.seqPaths) > 1
                  /\ Len(jobs[c].info.seqPaths) < MaxChunks
                  /\ jobs[c].info.seqPaths[Len(jobs[c].info.seqPaths)]
                         = <<"chunkIn", jobs[m].pred, 0>>

====
